---- MODULE Spec2Model ----
(***************************************************************************)
(* Model of src/src/create_balanced_preprocessed_dataset.py: the dataset   *)
(* assembler (main) and the functions it calls.                            *)
(*                                                                         *)
(* Representation.  A string is a sequence of one-character strings.  A    *)
(* DataFrame is [columns |-> sequence of column names, rows |-> sequence   *)
(* of rows]; a row is [idx |-> index label, cells |-> function from column *)
(* names to values].  A cell that holds NaN/None is absent from the        *)
(* DOMAIN of cells, so "is NaN" is "not in the domain".                    *)
(***************************************************************************)
EXTENDS Integers, Sequences, FiniteSets, TLC

\* ------------------------------------------------------------------ bounds
MaxRows == 3          \* raw rows on disk, both categories together
MaxSamplerRows == 4   \* rows of a corpus handed directly to the sampler
MaxCalls == 2         \* calls of create_balanced_dataset in one process
MaxFragments == 3     \* fragments a text handed to clean_text is made of
MaxFormatRows == 3    \* articles on disk when the two categories differ in format

\* ------------------------------------------------------- program constants
MIN_TOKENS == 20
YearLo == 2017
YearHi == 2024
DefaultRandomState == 42

Chinese == "Chinese State Media"
Western == "Western Media"
International == "International/Neutral"

\* ------------------------------------------------------------------ helpers
Min(a, b) == IF a < b THEN a ELSE b

Range(s) == {s[i] : i \in 1..Len(s)}

RECURSIVE Flatten(_)
Flatten(ss) == IF ss = <<>> THEN <<>> ELSE Head(ss) \o Flatten(Tail(ss))

RECURSIVE SortedSeq(_)
SortedSeq(S) ==
  IF S = {} THEN <<>>
  ELSE LET m == CHOOSE x \in S : \A y \in S : x <= y
       IN  <<m>> \o SortedSeq(S \ {m})

RECURSIVE Repeat(_, _, _)
Repeat(word, sep, n) ==
  IF n = 0 THEN <<>>
  ELSE IF n = 1 THEN word
  ELSE word \o sep \o Repeat(word, sep, n - 1)

\* --------------------------------------------------------------- characters
LowerSeq == <<"a","b","c","d","e","f","g","h","i","j","k","l","m",
              "n","o","p","q","r","s","t","u","v","w","x","y","z">>
UpperSeq == <<"A","B","C","D","E","F","G","H","I","J","K","L","M",
              "N","O","P","Q","R","S","T","U","V","W","X","Y","Z">>
DigitSeq == <<"0","1","2","3","4","5","6","7","8","9">>

IsUpper(c) == c \in Range(UpperSeq)
IsAlpha(c) == c \in Range(LowerSeq) \cup Range(UpperSeq)
IsDigit(c) == c \in Range(DigitSeq)
IsWordChar(c) == IsAlpha(c) \/ IsDigit(c) \/ c = "_"
IsSpace(c) == c \in {" ", "\t", "\n", "\r"}
IsKeptPunct(c) == c \in {".", ",", "!", "?", "'", "\"", "-"}

ToLower(c) ==
  IF IsUpper(c)
  THEN LowerSeq[CHOOSE i \in 1..Len(UpperSeq) : UpperSeq[i] = c]
  ELSE c

DigitVal(c) == (CHOOSE i \in 1..Len(DigitSeq) : DigitSeq[i] = c) - 1

StartsWith(s, i, p) ==
  /\ i + Len(p) - 1 <= Len(s)
  /\ \A k \in 1..Len(p) : s[i + k - 1] = p[k]

\* --------------------------------------------------------------- clean_text
\* the first position p >= i of s with Test(p), Len(s) + 1 if there is none
FirstFrom(s, i, Test(_)) ==
  LET hits == SelectSeq([k \in 1..(Len(s) + 1 - i) |-> k + i - 1], Test)
  IN  IF hits = <<>> THEN Len(s) + 1 ELSE Head(hits)

\* end of the run of non-space characters that starts at i: \S+
SkipNonSpace(s, i) == FirstFrom(s, i, LAMBDA p : IsSpace(s[p]))

\* 'http\S+' or 'www\S+' matches at position p
UrlAt(s, p, prefix) ==
  /\ StartsWith(s, p, prefix)
  /\ p + Len(prefix) <= Len(s)
  /\ ~IsSpace(s[p + Len(prefix)])

UrlStart(s, p) ==
  UrlAt(s, p, <<"h","t","t","p">>) \/ UrlAt(s, p, <<"w","w","w">>)

\* re.sub(r'http\S+|www\S+', '', text): matches are taken left to right
RECURSIVE RemoveUrlsFrom(_, _)
RemoveUrlsFrom(s, i) ==
  LET p == FirstFrom(s, i, LAMBDA q : UrlStart(s, q))
  IN  IF p > Len(s) THEN SubSeq(s, i, Len(s))
      ELSE SubSeq(s, i, p - 1) \o RemoveUrlsFrom(s, SkipNonSpace(s, p))

\* position of the first ">" at or after i, Len(s) + 1 if there is none
FindGt(s, i) == FirstFrom(s, i, LAMBDA p : s[p] = ">")

\* '<[^>]+>' matches at position p
TagStart(s, p) ==
  /\ s[p] = "<"
  /\ FindGt(s, p + 1) <= Len(s)
  /\ FindGt(s, p + 1) > p + 1

\* re.sub(r'<[^>]+>', '', text)
RECURSIVE RemoveTagsFrom(_, _)
RemoveTagsFrom(s, i) ==
  LET p == FirstFrom(s, i, LAMBDA q : TagStart(s, q))
  IN  IF p > Len(s) THEN SubSeq(s, i, Len(s))
      ELSE SubSeq(s, i, p - 1) \o RemoveTagsFrom(s, FindGt(s, p + 1) + 1)

\* re.sub(r'[^\w\s\.\,\!\?\'\"\-]', ' ', text)
ReplaceSpecial(s) ==
  [i \in 1..Len(s) |->
     IF IsWordChar(s[i]) \/ IsSpace(s[i]) \/ IsKeptPunct(s[i])
     THEN s[i] ELSE " "]

\* re.sub(r'\s+', ' ', text): a run of whitespace becomes one space
CollapseWhitespace(s) ==
  LET kept == SelectSeq([i \in 1..Len(s) |-> i],
                        LAMBDA i : ~(IsSpace(s[i]) /\ i > 1 /\ IsSpace(s[i - 1])))
  IN  [k \in 1..Len(kept) |-> IF IsSpace(s[kept[k]]) THEN " " ELSE s[kept[k]]]

\* .strip() of a text whose whitespace runs are single spaces
Strip(s) ==
  LET t == IF s # <<>> /\ IsSpace(s[1]) THEN Tail(s) ELSE s
  IN  IF t # <<>> /\ IsSpace(t[Len(t)]) THEN SubSeq(t, 1, Len(t) - 1) ELSE t

\* mutation of NormalizeWhitespace: no .strip()
NormalizeWhitespaceNoStrip(s) == CollapseWhitespace(s)

NormalizeWhitespace(s) == Strip(CollapseWhitespace(s))

\* mutation of clean_text: str(text) for a null or non-string input
clean_text_str(isNa, text) ==
  IF isNa THEN <<"n","a","n">>
  ELSE NormalizeWhitespace(
         ReplaceSpecial(RemoveTagsFrom(RemoveUrlsFrom(text, 1), 1)))

\* clean_text applied to one cell of a column: isNa is pd.isna(text) or
\* not isinstance(text, str)
clean_text(isNa, text) ==
  IF isNa THEN <<>>
  ELSE NormalizeWhitespace(
         ReplaceSpecial(RemoveTagsFrom(RemoveUrlsFrom(text, 1), 1)))

\* ------------------------------------------------------------ tokenize_text
\* The part of the NLTK English stopword list that the texts of this model
\* can contain.
StopWords == { <<"t","h","e">>, <<"a","n","d">>, <<"i","s">>, <<"o","f">>,
               <<"n","o","w">>, <<"a">>, <<"i","n">>, <<"t","o">> }

\* a token of word_tokenize starts at i / ends at i: a run of word characters
\* is one token, any other non-space character is a token of its own
TokenStart(s, i) ==
  /\ ~IsSpace(s[i])
  /\ (IsWordChar(s[i]) => (i = 1 \/ ~IsWordChar(s[i - 1])))

TokenEnd(s, i) ==
  /\ ~IsSpace(s[i])
  /\ (IsWordChar(s[i]) => (i = Len(s) \/ ~IsWordChar(s[i + 1])))

WordTokenize(s) ==
  LET starts == SelectSeq([i \in 1..Len(s) |-> i], LAMBDA i : TokenStart(s, i))
      ends == SelectSeq([i \in 1..Len(s) |-> i], LAMBDA i : TokenEnd(s, i))
  IN  [k \in 1..Len(starts) |-> SubSeq(s, starts[k], ends[k])]

LowerText(s) == [i \in 1..Len(s) |-> ToLower(s[i])]

TokenIsAlpha(tok) == tok # <<>> /\ \A i \in 1..Len(tok) : IsAlpha(tok[i])

\* mutation of KeepToken: len(token) >= 2
KeepTokenTwo(tok) ==
  /\ TokenIsAlpha(tok)
  /\ tok \notin StopWords
  /\ Len(tok) >= 2

KeepToken(tok) ==
  /\ TokenIsAlpha(tok)
  /\ tok \notin StopWords
  /\ Len(tok) > 2

tokenize_text(text) ==
  IF text = <<>> THEN <<>>
  ELSE SelectSeq(WordTokenize(LowerText(text)), KeepToken)

\* --------------------------------------------------------------- DataFrame
EmptyDf == [columns |-> <<>>, rows |-> <<>>]     \* pd.DataFrame()

HasCol(df, c) == c \in Range(df.columns)

IsNa(row, c) == c \notin DOMAIN row.cells

AddCol(columns, c) == IF c \in Range(columns) THEN columns ELSE Append(columns, c)

SetCell(row, c, v) ==
  [idx |-> row.idx,
   cells |-> [k \in DOMAIN row.cells \cup {c} |->
                IF k = c THEN v ELSE row.cells[k]]]

DelCell(row, c) ==
  [idx |-> row.idx,
   cells |-> [k \in DOMAIN row.cells \ {c} |-> row.cells[k]]]

\* df[mask]: the rows that satisfy Keep(_), index labels retained
FilterRows(df, Keep(_)) == [columns |-> df.columns, rows |-> SelectSeq(df.rows, Keep)]

\* labels 0..n-1 in order (ignore_index=True / a frame just read from disk)
ResetIndex(rows) == [i \in 1..Len(rows) |-> [idx |-> i - 1, cells |-> rows[i].cells]]

RECURSIVE UnionColumns(_, _)
UnionColumns(acc, cols) ==
  IF cols = <<>> THEN acc
  ELSE UnionColumns(AddCol(acc, Head(cols)), Tail(cols))

\* pd.concat([a, b], ignore_index=True)
Concat2(a, b) ==
  [columns |-> UnionColumns(a.columns, b.columns),
   rows |-> ResetIndex(a.rows \o b.rows)]

\* df[c] = v for every row
AssignColumn(df, c, v) ==
  [columns |-> AddCol(df.columns, c),
   rows |-> [i \in 1..Len(df.rows) |-> SetCell(df.rows[i], c, v)]]

\* ------------------------------------------------------------------ loaders
\* What the loaders find on disk, per category: the rows of all readable CSV
\* files of the category's directories in listing order and their columns.
\* Every file of a category is stamped with an outlet name ('source') and
\* the concatenation with the category.
LoadCategory(disk, outlet, category) ==
  IF disk.rows = <<>> THEN EmptyDf
  ELSE AssignColumn(
         AssignColumn([columns |-> disk.columns, rows |-> ResetIndex(disk.rows)],
                      "source", outlet),
         "source_category", category)

load_chinese_state_media(disk) == LoadCategory(disk, "China Daily", Chinese)

load_western_media(disk) == LoadCategory(disk, "The Guardian", Western)

\* ------------------------------------------------------ standardize_columns
\* mutation of column_mapping: 'content' listed before 'text'
column_mapping_content_first ==
  << <<"title", "headline">>, <<"Title", "headline">>,
     <<"headline", "headline">>, <<"Headline", "headline">>,
     <<"body", "body_text">>, <<"Body", "body_text">>,
     <<"body_text", "body_text">>, <<"content", "body_text">>,
     <<"text", "body_text">>, <<"article_text", "body_text">>,
     <<"date", "publication_date">>, <<"Date", "publication_date">>,
     <<"publication_date", "publication_date">>,
     <<"pub_date", "publication_date">>, <<"seendate", "publication_date">> >>

column_mapping ==
  << <<"title", "headline">>, <<"Title", "headline">>,
     <<"headline", "headline">>, <<"Headline", "headline">>,
     <<"body", "body_text">>, <<"Body", "body_text">>,
     <<"body_text", "body_text">>, <<"text", "body_text">>,
     <<"content", "body_text">>, <<"article_text", "body_text">>,
     <<"date", "publication_date">>, <<"Date", "publication_date">>,
     <<"publication_date", "publication_date">>,
     <<"pub_date", "publication_date">>, <<"seendate", "publication_date">> >>

\* mutation of RenameColumn: the label changes, the values stay behind
RenameColumnOnly(df, old, new) ==
  [columns |-> [i \in 1..Len(df.columns) |->
                  IF df.columns[i] = old THEN new ELSE df.columns[i]],
   rows |-> [i \in 1..Len(df.rows) |-> DelCell(df.rows[i], old)]]

\* df.rename(columns={old: new})
RenameColumn(df, old, new) ==
  [columns |-> [i \in 1..Len(df.columns) |->
                  IF df.columns[i] = old THEN new ELSE df.columns[i]],
   rows |-> [i \in 1..Len(df.rows) |->
               IF IsNa(df.rows[i], old) THEN df.rows[i]
               ELSE DelCell(SetCell(df.rows[i], new, df.rows[i].cells[old]), old)]]

RECURSIVE StandardizeFrom(_, _)
StandardizeFrom(df, k) ==
  IF k > Len(column_mapping) THEN df
  ELSE LET old == column_mapping[k][1]
           new == column_mapping[k][2]
       IN  IF HasCol(df, old) /\ ~HasCol(df, new)
           THEN StandardizeFrom(RenameColumn(df, old, new), k + 1)
           ELSE StandardizeFrom(df, k + 1)

standardize_columns(df) == StandardizeFrom(df, 1)

\* ------------------------------------------------------------- extract_year
\* pd.to_datetime(value, errors='coerce').dt.year for one cell: an ISO date
\* YYYY-MM-DD gives its year, anything else NaT (0 here, never stored)
IsIsoDate(d) ==
  /\ Len(d) = 10
  /\ \A i \in {1, 2, 3, 4, 6, 7, 9, 10} : IsDigit(d[i])
  /\ d[5] = "-" /\ d[8] = "-"

ParseYear(d) ==
  IF IsIsoDate(d)
  THEN 1000 * DigitVal(d[1]) + 100 * DigitVal(d[2])
         + 10 * DigitVal(d[3]) + DigitVal(d[4])
  ELSE 0

\* mutation of YearFromColumn: a date that does not parse falls back to
\* the record's 'seendate'
YearFromColumnFallback(df, date_col) ==
  [columns |-> AddCol(df.columns, "year"),
   rows |-> [i \in 1..Len(df.rows) |->
               LET r == df.rows[i]
               IN  IF ~IsNa(r, date_col) /\ ParseYear(r.cells[date_col]) # 0
                   THEN SetCell(r, "year", ParseYear(r.cells[date_col]))
                   ELSE IF ~IsNa(r, "seendate") /\ ParseYear(r.cells["seendate"]) # 0
                   THEN SetCell(r, "year", ParseYear(r.cells["seendate"]))
                   ELSE DelCell(r, "year")]]

YearFromColumn(df, date_col) ==
  [columns |-> AddCol(df.columns, "year"),
   rows |-> [i \in 1..Len(df.rows) |->
               LET r == df.rows[i]
               IN  IF ~IsNa(r, date_col) /\ ParseYear(r.cells[date_col]) # 0
                   THEN SetCell(r, "year", ParseYear(r.cells[date_col]))
                   ELSE DelCell(r, "year")]]

date_cols == <<"publication_date", "seendate", "date">>

\* mutation of extract_year: no early return when 'year' exists
extract_year_always(df) ==
  IF HasCol(df, "publication_date")
  THEN LET present == SelectSeq(date_cols, LAMBDA c : HasCol(df, c))
       IN  YearFromColumn(df, Head(present))
  ELSE df

extract_year(df) ==
  IF HasCol(df, "year") THEN df
  ELSE IF HasCol(df, "publication_date")
       THEN LET present == SelectSeq(date_cols, LAMBDA c : HasCol(df, c))
            IN  YearFromColumn(df, Head(present))
  ELSE df

\* ------------------------------------------------- year range, deduplication
\* combined_df[combined_df['year'].between(2017, 2024)]
\* mutation of InYearRange: every record that has a year passes
InYearRangeAny(row) == ~IsNa(row, "year")

InYearRange(row) ==
  ~IsNa(row, "year") /\ YearLo <= row.cells["year"] /\ row.cells["year"] <= YearHi

\* two cells of column c that drop_duplicates takes for the same key: equal
\* values, or both missing
SameKey(r1, r2, c) ==
  \/ IsNa(r1, c) /\ IsNa(r2, c)
  \/ ~IsNa(r1, c) /\ ~IsNa(r2, c) /\ r1.cells[c] = r2.cells[c]

\* mutation of KeepsFirst: keep='last'
KeepsLast(rows, i, c) == \A j \in (i + 1)..Len(rows) : ~SameKey(rows[j], rows[i], c)

\* position i survives drop_duplicates(subset=[c], keep='first')
KeepsFirst(rows, i, c) == \A j \in 1..(i - 1) : ~SameKey(rows[j], rows[i], c)

drop_duplicates(df, c) ==
  LET kept == SelectSeq([i \in 1..Len(df.rows) |-> i],
                        LAMBDA i : KeepsFirst(df.rows, i, c))
  IN  [columns |-> df.columns,
       rows |-> [k \in 1..Len(kept) |-> df.rows[kept[k]]]]

\* ------------------------------------------------------ preprocess_articles
text_cols == <<"body_text", "text", "content", "body">>

\* mutation of PreprocessRow: the cell is turned into a str before cleaning,
\* so a null body becomes the text "nan"
PreprocessRowAsStr(r, text_col) ==
  LET ct == clean_text(FALSE,
                       IF IsNa(r, text_col) THEN <<"n","a","n">>
                       ELSE r.cells[text_col])
      toks == tokenize_text(ct)
  IN  SetCell(SetCell(SetCell(r, "clean_text", ct), "tokens", toks),
              "token_count", Len(toks))

PreprocessRow(r, text_col) ==
  LET ct == clean_text(IsNa(r, text_col),
                       IF IsNa(r, text_col) THEN <<>> ELSE r.cells[text_col])
      toks == tokenize_text(ct)
  IN  SetCell(SetCell(SetCell(r, "clean_text", ct), "tokens", toks),
              "token_count", Len(toks))

preprocess_articles(df) ==
  LET present == SelectSeq(text_cols, LAMBDA c : HasCol(df, c))
  IN  IF present = <<>> THEN df
      ELSE [columns |-> AddCol(AddCol(AddCol(df.columns, "clean_text"),
                                      "tokens"), "token_count"),
            rows |-> [i \in 1..Len(df.rows) |->
                        PreprocessRow(df.rows[i], Head(present))]]

\* ---------------------------------------------------- filter_short_articles
\* mutation of LongEnough: > instead of >=
LongerThan(row, min_tokens) ==
  ~IsNa(row, "token_count") /\ row.cells["token_count"] > min_tokens

LongEnough(row, min_tokens) ==
  ~IsNa(row, "token_count") /\ row.cells["token_count"] >= min_tokens

filter_short_articles(df, min_tokens) ==
  FilterRows(df, LAMBDA r : LongEnough(r, min_tokens))

\* -------------------------------------------------- create_balanced_dataset
\* numpy's RandomState, reduced to a 64-state linear congruential generator:
\* seeding fixes the state, every draw advances it.
RandomState(seed) == seed % 64

NextState(s) == (13 * s + 7) % 64

\* a draw in 0..max from generator state s
RandomInterval(s, max) == (s \div 4) % (max + 1)

\* RandomState.shuffle: for i in reversed(range(1, n)): swap x[i], x[draw(0..i)]
RECURSIVE Shuffle(_, _, _)
Shuffle(x, i, s) ==
  IF i < 2 THEN x
  ELSE LET s2 == NextState(s)
           j == RandomInterval(s2, i - 1) + 1
       IN  Shuffle([x EXCEPT ![i] = x[j], ![j] = x[i]], i - 1, s2)

Permutation(n, s) == Shuffle([k \in 1..n |-> k], n, s)

\* mutation of SampleGenerator: seeded from the wall clock
SampleGeneratorClock(random_state, env) == RandomState(env.now)

\* The generator a .sample(n=..., random_state=random_state) call draws from.
\* env is what the process offers besides the arguments: the state of the
\* global numpy generator and the wall clock.
SampleGenerator(random_state, env) == RandomState(random_state)

\* mutation of Sample: n draws with replacement
SampleWithReplacement(rows, n, random_state, env) ==
  LET perm == Permutation(Len(rows), SampleGenerator(random_state, env))
  IN  [i \in 1..n |-> rows[perm[1]]]

\* DataFrame.sample(n=n, random_state=random_state): the rows at the first n
\* positions of a permutation of all positions
Sample(rows, n, random_state, env) ==
  LET perm == Permutation(Len(rows), SampleGenerator(random_state, env))
  IN  [i \in 1..n |-> rows[perm[i]]]

\* mutation of CategoryRows: the category is not looked at
CategoryRowsAny(rows, category) == rows

\* df[df['source_category'] == category]
CategoryRows(rows, category) ==
  SelectSeq(rows, LAMBDA r : ~IsNa(r, "source_category")
                             /\ r.cells["source_category"] = category)

\* mutation of YearRows: >= instead of ==
YearRowsFrom(rows, year) ==
  SelectSeq(rows, LAMBDA r : ~IsNa(r, "year") /\ r.cells["year"] >= year)

\* frame[frame['year'] == year]
YearRows(rows, year) ==
  SelectSeq(rows, LAMBDA r : ~IsNa(r, "year") /\ r.cells["year"] = year)

\* sorted(df['year'].dropna().unique()) restricted to 2017..2024
SamplerYears(df) ==
  SortedSeq({y \in YearLo..YearHi :
               \E i \in 1..Len(df.rows) :
                 ~IsNa(df.rows[i], "year") /\ df.rows[i].cells["year"] = y})

\* mutation of NSample: one record per category whatever the counts
NSampleOne(n_chinese, n_western) == Min(Min(n_chinese, n_western), 1)

NSample(n_chinese, n_western) == Min(n_chinese, n_western)

\* mutation of YearSamples: the generator has been advanced once per record
\* of an earlier year
YearSamplesAdvanced(df, year, random_state, env) ==
  LET chinese_year == YearRows(CategoryRows(df.rows, Chinese), year)
      western_year == YearRows(CategoryRows(df.rows, Western), year)
      n_sample == NSample(Len(chinese_year), Len(western_year))
      earlier == Len(SelectSeq(df.rows, LAMBDA r : ~IsNa(r, "year")
                                                   /\ r.cells["year"] < year))
  IN  IF n_sample > 0
      THEN << Sample(chinese_year, n_sample, random_state + earlier, env),
              Sample(western_year, n_sample, random_state + earlier, env) >>
      ELSE <<>>

\* mutation of YearSamples: the Western sample is appended first
YearSamplesWesternFirst(df, year, random_state, env) ==
  LET chinese_year == YearRows(CategoryRows(df.rows, Chinese), year)
      western_year == YearRows(CategoryRows(df.rows, Western), year)
      n_sample == NSample(Len(chinese_year), Len(western_year))
  IN  IF n_sample > 0
      THEN << Sample(western_year, n_sample, random_state, env),
              Sample(chinese_year, n_sample, random_state, env) >>
      ELSE <<>>

\* one iteration of the loop over years: what it appends to balanced_samples
YearSamples(df, year, random_state, env) ==
  LET chinese_year == YearRows(CategoryRows(df.rows, Chinese), year)
      western_year == YearRows(CategoryRows(df.rows, Western), year)
      n_sample == NSample(Len(chinese_year), Len(western_year))
  IN  IF n_sample > 0
      THEN << Sample(chinese_year, n_sample, random_state, env),
              Sample(western_year, n_sample, random_state, env) >>
      ELSE <<>>

RECURSIVE BalancedSamples(_, _, _, _)
BalancedSamples(df, years, random_state, env) ==
  IF years = <<>> THEN <<>>
  ELSE YearSamples(df, Head(years), random_state, env)
         \o BalancedSamples(df, Tail(years), random_state, env)

\* The call's outcome: raised is the exception it ends with ("" when it
\* returns), samples the list balanced_samples, df the returned frame.
\* pd.concat of an empty list raises ValueError.
create_balanced_dataset(df, random_state, env) ==
  LET balanced_samples == BalancedSamples(df, SamplerYears(df), random_state, env)
  IN  IF balanced_samples = <<>>
      THEN [raised |-> "ValueError", samples |-> <<>>, df |-> EmptyDf]
      ELSE [raised |-> "", samples |-> balanced_samples,
            df |-> [columns |-> df.columns,
                    rows |-> ResetIndex(Flatten(balanced_samples))]]

\* ---------------------------------------------------------------- persisting
csv_cols == <<"headline", "body_text", "clean_text", "source", "source_category",
              "publication_date", "year", "url", "token_count">>

\* balanced_df[csv_cols].to_csv(..., index=False)
CsvContent(df) ==
  LET cols == SelectSeq(csv_cols, LAMBDA c : HasCol(df, c))
  IN  [columns |-> cols,
       rows |-> [i \in 1..Len(df.rows) |->
                   [c \in DOMAIN df.rows[i].cells \cap Range(cols) |->
                      df.rows[i].cells[c]]]]

\* ------------------------------------------------------------------- inputs
D2020 == <<"2","0","2","0","-","0","5","-","0","1">>
D2021 == <<"2","0","2","1","-","0","3","-","1","4">>
D2016 == <<"2","0","1","6","-","1","1","-","3","0">>

\* exactly MIN_TOKENS tokens once cleaned and tokenized
LongText == Repeat(<<"Y","a","k">>, <<" ">>, MIN_TOKENS)
OkText == <<"o","k">>

\* url, date, body of a raw article; "" is an empty CSV field
ArticleKinds ==
  {k \in {"u1", "u2", ""} \X {D2020, D2016} \X {LongText, OkText} :
     k[3] = OkText => (k[2] = D2020 /\ k[1] # "u1")}

\* column names the files of a run use for url, body and date ("" = no such
\* column)
Schemas ==
  { [url |-> "url", body |-> "text", date |-> "date"],
    [url |-> "", body |-> "body_text", date |-> "publication_date"],
    [url |-> "url", body |-> "", date |-> "publication_date"],
    [url |-> "url", body |-> "body_text", date |-> ""] }

SchemaColumns(sch) == SelectSeq(<<sch.url, sch.body, sch.date>>, LAMBDA c : c # "")

\* pd.read_csv of one line: empty fields are NaN
RawRow(sch, k) ==
  [idx |-> 0,
   cells |-> [c \in (IF k[1] = "" THEN {} ELSE {sch.url} \ {""})
                     \cup ({sch.body, sch.date} \ {""}) |->
                IF c = sch.url THEN k[1]
                ELSE IF c = sch.body THEN k[3]
                ELSE k[2]]]

RawFrame(sch, kinds) ==
  [columns |-> SchemaColumns(sch),
   rows |-> [i \in 1..Len(kinds) |-> RawRow(sch, kinds[i])]]

\* the first n_chinese articles lie in the Chinese directories, the rest in
\* the Western ones
Disk(sch, kinds, n_chinese) ==
  [chinese |-> RawFrame(sch, SubSeq(kinds, 1, n_chinese)),
   western |-> RawFrame(sch, SubSeq(kinds, n_chinese + 1, Len(kinds)))]

\* corpora handed directly to the sampler
SamplerKinds ==
  { <<Chinese, 2020>>, <<Chinese, 2021>>, <<Western, 2020>>, <<Western, 2021>>,
    <<Chinese, 2016>>, <<Western, 0>>, <<International, 2020>> }

ArticleNames == <<"a1", "a2", "a3", "a4", "a5", "a6", "a7", "a8">>

SamplerRow(i, k) ==
  [idx |-> i - 1,
   cells |-> [c \in {"url", "source_category"}
                     \cup (IF k[2] = 0 THEN {} ELSE {"year"}) |->
                IF c = "url" THEN ArticleNames[i]
                ELSE IF c = "source_category" THEN k[1]
                ELSE k[2]]]

SamplerInput(kinds) ==
  [columns |-> <<"url", "source_category", "year">>,
   rows |-> [i \in 1..Len(kinds) |-> SamplerRow(i, kinds[i])]]

Seeds == {DefaultRandomState, 0}
Clock == {1000, 1002}

\* CSV formats of the raw files: the columns of a file, in order, each with
\* the field of the article it holds
FormatAliases ==
  << <<"url", "url">>, <<"title", "title">>, <<"text", "body">>,
     <<"date", "date">> >>

FormatCanonical ==
  << <<"url", "url">>, <<"headline", "title">>, <<"body_text", "body">>,
     <<"publication_date", "date">> >>

FormatSeendate ==
  << <<"url", "url">>, <<"Title", "title">>, <<"content", "body">>,
     <<"seendate", "date">> >>

FormatTwoAliases ==
  << <<"url", "url">>, <<"title", "title">>, <<"text", "body">>,
     <<"content", "teaser">>, <<"publication_date", "date">>,
     <<"seendate", "seen">>, <<"section", "section">> >>

FormatProcessed ==
  << <<"url", "url">>, <<"headline", "title">>, <<"title", "teaser">>,
     <<"body_text", "body">>, <<"publication_date", "date">>,
     <<"year", "year">>, <<"token_count", "token_count">> >>

FormatNoText ==
  << <<"url", "url">>, <<"publication_date", "date">>,
     <<"token_count", "token_count">> >>

Formats ==
  { FormatAliases, FormatCanonical, FormatSeendate, FormatTwoAliases,
    FormatProcessed, FormatNoText }

Unparseable == <<"u","n","k","n","o","w","n">>

\* body and date of a raw article; an empty body is an empty CSV field
FormatKinds == { <<LongText, D2020>>, << <<>>, D2020>>, <<LongText, Unparseable>> }

\* the i-th article on disk: year and token_count are what an earlier tool
\* wrote into the file
SourceArticle(i, k) ==
  [url |-> ArticleNames[i], title |-> <<"T">>, body |-> k[1], teaser |-> OkText,
   date |-> k[2], seen |-> D2021, section |-> <<"n","e","w","s">>,
   year |-> 2019, token_count |-> 50]

\* pd.read_csv of one line of a file in format fmt: empty fields are NaN
FormatRow(fmt, art) ==
  LET held == SelectSeq(fmt, LAMBDA cf : ~(cf[2] = "body" /\ art.body = <<>>))
  IN  [idx |-> 0,
       cells |-> [c \in {held[j][1] : j \in 1..Len(held)} |->
                    LET j == CHOOSE j \in 1..Len(held) : held[j][1] = c
                    IN  art[held[j][2]]]]

FormatFrame(fmt, kinds, from, to) ==
  [columns |-> [j \in 1..Len(fmt) |-> fmt[j][1]],
   rows |-> [i \in 1..(to - from + 1) |->
               FormatRow(fmt, SourceArticle(from + i - 1, kinds[from + i - 1]))]]

\* the first n_chinese articles lie in the Chinese directories, in format
\* fmt_c, the rest in the Western ones, in format fmt_w
FormatDisk(fmt_c, fmt_w, kinds, n_chinese) ==
  [chinese |-> FormatFrame(fmt_c, kinds, 1, n_chinese),
   western |-> FormatFrame(fmt_w, kinds, n_chinese + 1, Len(kinds))]

\* -------------------------------------------------------------------- state
VARIABLES
  pc,           \* where main is; "imported" when the module is used as a library
  disk,         \* the raw files, [chinese, western]
  chinese_df, western_df, combined_df, filtered_df, balanced_df,
  csv_file,     \* balanced_preprocessed.csv: <<>> until written, then <<content>>
  pkl_file,     \* balanced_preprocessed.pkl, likewise
  error,        \* the uncaught exception main ended with, "" if none
  np_random,    \* state of numpy's global generator
  stages,       \* history: the stages main has run, each with the value of
                \* combined_df that it replaced (EmptyDf if it replaced none)
  calls         \* history: the calls of create_balanced_dataset made by a library user

vars == <<pc, disk, chinese_df, western_df, combined_df, filtered_df,
          balanced_df, csv_file, pkl_file, error, np_random, stages, calls>>

frames == <<chinese_df, western_df, combined_df, filtered_df, balanced_df>>

Stage(name, replaced) == [stage |-> name, replaced |-> replaced]

StageNames == [i \in 1..Len(stages) |-> stages[i].stage]

Init ==
  /\ pc = "start"
  /\ \E m \in 0..MaxRows :
       \E kinds \in [1..m -> ArticleKinds], sch \in Schemas, n_chinese \in 0..m :
         disk = Disk(sch, kinds, n_chinese)
  /\ chinese_df = EmptyDf /\ western_df = EmptyDf /\ combined_df = EmptyDf
  /\ filtered_df = EmptyDf /\ balanced_df = EmptyDf
  /\ csv_file = <<>> /\ pkl_file = <<>>
  /\ error = ""
  /\ np_random = 0
  /\ stages = <<>>
  /\ calls = <<>>

\* ------------------------------------------------------------ main, by stage
\* lines 331-333
Load ==
  /\ pc = "start"
  /\ chinese_df' = load_chinese_state_media(disk.chinese)
  /\ western_df' = load_western_media(disk.western)
  /\ stages' = Append(stages, Stage("load", EmptyDf))
  /\ pc' = "loaded"
  /\ UNCHANGED <<disk, combined_df, filtered_df, balanced_df, csv_file,
                 pkl_file, error, np_random, calls>>

\* mutation of MissingInput: and instead of or
MissingBoth(c_df, w_df) == Len(c_df.rows) = 0 /\ Len(w_df.rows) = 0

\* line 335
MissingInput(c_df, w_df) == Len(c_df.rows) = 0 \/ Len(w_df.rows) = 0

\* lines 335-337
AbortMissingInput ==
  /\ pc = "loaded"
  /\ MissingInput(chinese_df, western_df)
  /\ pc' = "aborted"
  /\ UNCHANGED <<disk, frames, csv_file, pkl_file, error, np_random, stages, calls>>

\* mutation of Combine: the Western frame comes first
CombineWesternFirst ==
  /\ pc = "loaded"
  /\ ~MissingInput(chinese_df, western_df)
  /\ combined_df' = Concat2(western_df, chinese_df)
  /\ pc' = "combined"
  /\ UNCHANGED <<disk, chinese_df, western_df, filtered_df, balanced_df,
                 csv_file, pkl_file, error, np_random, stages, calls>>

\* lines 339-342
Combine ==
  /\ pc = "loaded"
  /\ ~MissingInput(chinese_df, western_df)
  /\ combined_df' = Concat2(chinese_df, western_df)
  /\ pc' = "combined"
  /\ UNCHANGED <<disk, chinese_df, western_df, filtered_df, balanced_df,
                 csv_file, pkl_file, error, np_random, stages, calls>>

\* a stage that replaces combined_df by out and moves on to next_pc
CombinedStage(name, out, next_pc) ==
  /\ combined_df' = out
  /\ stages' = Append(stages, Stage(name, combined_df))
  /\ pc' = next_pc
  /\ UNCHANGED <<disk, chinese_df, western_df, filtered_df, balanced_df,
                 csv_file, pkl_file, error, np_random, calls>>

\* an exception nobody catches ends the run
Crash(exception) ==
  /\ pc' = "crashed"
  /\ error' = exception
  /\ UNCHANGED <<disk, frames, csv_file, pkl_file, np_random, stages, calls>>

\* line 345
Standardize ==
  /\ pc = "combined"
  /\ CombinedStage("standardize", standardize_columns(combined_df), "standardized")

\* line 348
ExtractYear ==
  /\ pc = "standardized"
  /\ CombinedStage("extract_year", extract_year(combined_df), "year_extracted")

\* lines 350-352; combined_df['year'] raises KeyError without the column
FilterYearRange ==
  /\ pc = "year_extracted"
  /\ IF HasCol(combined_df, "year")
     THEN CombinedStage("year_range", FilterRows(combined_df, InYearRange),
                        "year_filtered")
     ELSE Crash("KeyError")

\* mutation of Deduplicate: the test for the url column never succeeds
DeduplicateNever ==
  /\ pc = "year_filtered"
  /\ pc' = "deduplicated"
  /\ UNCHANGED <<disk, frames, csv_file, pkl_file, error, np_random, stages, calls>>

\* lines 354-358
Deduplicate ==
  /\ pc = "year_filtered"
  /\ IF HasCol(combined_df, "url")
     THEN CombinedStage("deduplicate", drop_duplicates(combined_df, "url"),
                        "deduplicated")
     ELSE /\ pc' = "deduplicated"
          /\ UNCHANGED <<disk, frames, csv_file, pkl_file, error, np_random,
                         stages, calls>>

\* line 361
Preprocess ==
  /\ pc = "deduplicated"
  /\ CombinedStage("preprocess", preprocess_articles(combined_df), "preprocessed")

\* line 364; df['token_count'] raises KeyError without the column
FilterShort ==
  /\ pc = "preprocessed"
  /\ IF HasCol(combined_df, "token_count")
     THEN /\ filtered_df' = filter_short_articles(combined_df, MIN_TOKENS)
          /\ stages' = Append(stages, Stage("content_filter", EmptyDf))
          /\ pc' = "filtered"
          /\ UNCHANGED <<disk, chinese_df, western_df, combined_df, balanced_df,
                         csv_file, pkl_file, error, np_random, calls>>
     ELSE Crash("KeyError")

\* line 367; np.random.seed(random_state) is the call's first statement
Balance ==
  /\ pc = "filtered"
  /\ \E now \in Clock :
       LET env == [np_random |-> RandomState(DefaultRandomState), now |-> now]
           r == create_balanced_dataset(filtered_df, DefaultRandomState, env)
       IN  /\ np_random' = RandomState(DefaultRandomState)
           /\ IF r.raised = ""
              THEN /\ balanced_df' = r.df
                   /\ stages' = Append(stages, Stage("balance", EmptyDf))
                   /\ pc' = "balanced"
                   /\ error' = error
              ELSE /\ pc' = "crashed"
                   /\ error' = r.raised
                   /\ UNCHANGED <<balanced_df, stages>>
  /\ UNCHANGED <<disk, chinese_df, western_df, combined_df, filtered_df,
                 csv_file, pkl_file, calls>>

\* lines 374-377
SaveCsv ==
  /\ pc = "balanced"
  /\ csv_file' = <<CsvContent(balanced_df)>>
  /\ pc' = "csv_saved"
  /\ UNCHANGED <<disk, frames, pkl_file, error, np_random, stages, calls>>

\* line 380, then the summary and the return
SavePkl ==
  /\ pc = "csv_saved"
  /\ pkl_file' = <<balanced_df>>
  /\ stages' = Append(stages, Stage("persist", EmptyDf))
  /\ pc' = "done"
  /\ UNCHANGED <<disk, frames, csv_file, error, np_random, calls>>

Next ==
  \/ Load
  \/ AbortMissingInput
  \/ Combine
  \/ Standardize
  \/ ExtractYear
  \/ FilterYearRange
  \/ Deduplicate
  \/ Preprocess
  \/ FilterShort
  \/ Balance
  \/ SaveCsv
  \/ SavePkl

Spec == Init /\ [][Next]_vars

\* ------------------------------------- create_balanced_dataset as a library
InitSampler ==
  /\ pc = "imported"
  /\ disk = Disk(CHOOSE sch \in Schemas : sch.url = "", <<>>, 0)
  /\ chinese_df = EmptyDf /\ western_df = EmptyDf /\ combined_df = EmptyDf
  /\ \E m \in 0..MaxSamplerRows :
       \E kinds \in [1..m -> SamplerKinds] : filtered_df = SamplerInput(kinds)
  /\ balanced_df = EmptyDf
  /\ csv_file = <<>> /\ pkl_file = <<>>
  /\ error = ""
  /\ np_random = 0
  /\ stages = <<>>
  /\ calls = <<>>

\* one call create_balanced_dataset(filtered_df, random_state), lines 279-323
CallCreateBalanced ==
  /\ pc = "imported"
  /\ Len(calls) < MaxCalls
  /\ \E random_state \in Seeds, now \in Clock :
       LET env == [np_random |-> RandomState(random_state), now |-> now]
           r == create_balanced_dataset(filtered_df, random_state, env)
       IN  /\ np_random' = RandomState(random_state)
           /\ calls' = Append(calls, [random_state |-> random_state,
                                      raised |-> r.raised,
                                      samples |-> r.samples,
                                      df |-> r.df])
           /\ balanced_df' = IF r.raised = "" THEN r.df ELSE balanced_df
  /\ UNCHANGED <<pc, disk, chinese_df, western_df, combined_df, filtered_df,
                 csv_file, pkl_file, error, stages>>

NextSampler == CallCreateBalanced

SpecSampler == InitSampler /\ [][NextSampler]_vars

\* ------------------------------------ main over files of different formats
InitFormats ==
  /\ pc = "start"
  /\ \E m \in 0..MaxFormatRows :
       \E kinds \in [1..m -> FormatKinds], fmt_c \in Formats, fmt_w \in Formats,
          n_chinese \in 0..m :
         disk = FormatDisk(fmt_c, fmt_w, kinds, n_chinese)
  /\ chinese_df = EmptyDf /\ western_df = EmptyDf /\ combined_df = EmptyDf
  /\ filtered_df = EmptyDf /\ balanced_df = EmptyDf
  /\ csv_file = <<>> /\ pkl_file = <<>>
  /\ error = ""
  /\ np_random = 0
  /\ stages = <<>>
  /\ calls = <<>>

SpecFormats == InitFormats /\ [][Next]_vars

\* ------------------------------------------------- clean_text as a library
\* A Python value handed to clean_text: its type and, for a str, its text.
PyStr(text) == [type |-> "str", text |-> text]

NonStrings ==
  { [type |-> "float('nan')", text |-> <<>>],
    [type |-> "NoneType", text |-> <<>>],
    [type |-> "int", text |-> <<>>] }

\* pd.isna(text) or not isinstance(text, str)
IsNullOrNotStr(x) == x.type # "str"

TextFragments ==
  { <<"T","i","b","e","t">>, <<" ">>, <<"\n"," ">>, <<"!">>, <<"$">>,
    <<"<","b",">">>, <<"<","/","b",">">>,
    <<"h","t","t","p",":","/","/","x",".","c","o","m">>,
    <<"w","w">>, <<"w",".","x">> }

\* "Tibet is <b>beautiful</b>. Visit http://x.com now!"
ExampleText ==
  <<"T","i","b","e","t"," ","i","s"," ","<","b",">","b","e","a","u","t","i",
    "f","u","l","<","/","b",">","."," ","V","i","s","i","t"," ","h","t","t",
    "p",":","/","/","x",".","c","o","m"," ","n","o","w","!">>

InitText ==
  /\ pc = "imported"
  /\ disk = Disk(CHOOSE sch \in Schemas : sch.url = "", <<>>, 0)
  /\ chinese_df = EmptyDf /\ western_df = EmptyDf /\ combined_df = EmptyDf
  /\ filtered_df = EmptyDf /\ balanced_df = EmptyDf
  /\ csv_file = <<>> /\ pkl_file = <<>>
  /\ error = ""
  /\ np_random = 0
  /\ stages = <<>>
  /\ calls = <<>>

\* the call clean_text(x), recorded with its result
CleanTextCalled(x) ==
  /\ calls' = <<[fn |-> "clean_text", arg |-> x,
                 result |-> clean_text(IsNullOrNotStr(x), x.text)]>>
  /\ UNCHANGED <<pc, disk, frames, csv_file, pkl_file, error, np_random, stages>>

\* one call of clean_text, lines 41-55
CallCleanText ==
  /\ pc = "imported"
  /\ calls = <<>>
  /\ \/ \E m \in 0..MaxFragments :
          \E frags \in [1..m -> TextFragments] : CleanTextCalled(PyStr(Flatten(frags)))
     \/ \E x \in NonStrings \cup {PyStr(ExampleText)} : CleanTextCalled(x)

NextText == CallCleanText

SpecText == InitText /\ [][NextText]_vars

\* ---------------------------------------------- tokenize_text as a library
TokenFragments ==
  { <<"T","i","b","e","t"," ">>, <<"t","h","e"," ">>, <<"I","s"," ">>,
    <<"w","w"," ">>, <<"y","a","k","2"," ">>, <<"."," ">>,
    <<"Y","a","k","s">>, <<" ">> }

\* one call of tokenize_text, lines 57-75, recorded with its result
CallTokenizeText ==
  /\ pc = "imported"
  /\ calls = <<>>
  /\ \E m \in 0..MaxFragments :
       \E frags \in [1..m -> TokenFragments] :
         calls' = <<[fn |-> "tokenize_text", arg |-> PyStr(Flatten(frags)),
                     result |-> tokenize_text(Flatten(frags))]>>
  /\ UNCHANGED <<pc, disk, frames, csv_file, pkl_file, error, np_random, stages>>

NextTokens == CallTokenizeText

SpecTokens == InitText /\ [][NextTokens]_vars

\* ------------------------------------------------------------------- claims
Returned(call) == call.raised = ""

\* number of rows of a sequence with the given category and year
Count(rows, category, year) == Len(YearRows(CategoryRows(rows, category), year))

YearsIn(rows) ==
  {rows[i].cells["year"] : i \in {j \in 1..Len(rows) : ~IsNa(rows[j], "year")}}

CellsOf(rows) == {rows[i].cells : i \in 1..Len(rows)}

\* C1: whenever create_balanced_dataset returns, every year that occurs in
\* its output has as many Chinese State Media records as Western Media
\* records.
C1_BalancePerYear ==
  \A k \in 1..Len(calls) :
    Returned(calls[k]) =>
      \A y \in YearsIn(calls[k].df.rows) :
        Count(calls[k].df.rows, Chinese, y) = Count(calls[k].df.rows, Western, y)

\* a call returned records for a year in which the input had more Chinese
\* than Western records
C1_Witness ==
  \E k \in 1..Len(calls) :
    /\ Returned(calls[k])
    /\ \E y \in YearsIn(calls[k].df.rows) :
         /\ Count(filtered_df.rows, Chinese, y) > Count(filtered_df.rows, Western, y)
         /\ Count(filtered_df.rows, Western, y) > 0

\* C2: whenever create_balanced_dataset returns, for every year y of
\* 2017..2024 the output holds exactly min(nC, nW) records of each category,
\* and each of them is an input record of that category and year.
C2_MinPerYear ==
  \A k \in 1..Len(calls) :
    Returned(calls[k]) =>
      \A y \in YearLo..YearHi :
        \A category \in {Chinese, Western} :
          /\ Count(calls[k].df.rows, category, y)
               = Min(Count(filtered_df.rows, Chinese, y),
                     Count(filtered_df.rows, Western, y))
          /\ CellsOf(YearRows(CategoryRows(calls[k].df.rows, category), y))
               \subseteq CellsOf(YearRows(CategoryRows(filtered_df.rows, category), y))

\* a call returned for an input with fewer Chinese than Western records in a
\* year, and the Western records of that year were sampled down
C2_Witness ==
  \E k \in 1..Len(calls) :
    /\ Returned(calls[k])
    /\ \E y \in YearLo..YearHi :
         /\ Count(filtered_df.rows, Chinese, y) > 0
         /\ Count(filtered_df.rows, Chinese, y) < Count(filtered_df.rows, Western, y)
         /\ Count(calls[k].df.rows, Western, y) = Count(filtered_df.rows, Chinese, y)

\* C3: two calls of create_balanced_dataset with the same seed on the same
\* corpus end the same way and return the same records in the same order,
\* whatever the clock and the global generator were at each call.
C3_Deterministic ==
  \A i, j \in 1..Len(calls) :
    calls[i].random_state = calls[j].random_state =>
      /\ calls[i].raised = calls[j].raised
      /\ calls[i].df = calls[j].df

\* two calls with the same seed returned a sample that leaves a record out
C3_Witness ==
  /\ Len(calls) >= 2
  /\ calls[1].random_state = calls[2].random_state
  /\ Returned(calls[1])
  /\ Len(calls[1].df.rows) < Len(filtered_df.rows)
  /\ \E y \in YearsIn(calls[1].df.rows) :
       Count(filtered_df.rows, Chinese, y) # Count(filtered_df.rows, Western, y)

\* C10: create_balanced_dataset returns a corpus for every input, also when
\* no year has records of both categories.
C10_AlwaysReturns == \A k \in 1..Len(calls) : Returned(calls[k])

\* the deduplication stage has just run; the corpus handed to it is
\* PreDedup, the corpus it left is combined_df
DedupJustRan ==
  /\ pc = "deduplicated"
  /\ stages # <<>>
  /\ stages[Len(stages)].stage = "deduplicate"

PreDedup == stages[Len(stages)].replaced

UrlRows(rows, u) ==
  SelectSeq(rows, LAMBDA r : ~IsNa(r, "url") /\ r.cells["url"] = u)

NullUrlRows(rows) == SelectSeq(rows, LAMBDA r : IsNa(r, "url"))

UrlsIn(rows) ==
  {rows[i].cells["url"] : i \in {j \in 1..Len(rows) : ~IsNa(rows[j], "url")}}

\* C4: after the deduplication stage, every non-empty url of the corpus
\* handed to it is carried by exactly one record, the first that carried it;
\* so a url that occurred once keeps its record.
C4_FirstSeenWins ==
  DedupJustRan =>
    \A u \in UrlsIn(PreDedup.rows) :
      UrlRows(combined_df.rows, u) = <<UrlRows(PreDedup.rows, u)[1]>>

\* the stage was handed a url that occurs more than once and one that occurs
\* once
C4_Witness ==
  /\ DedupJustRan
  /\ \E u, v \in UrlsIn(PreDedup.rows) :
       /\ Len(UrlRows(PreDedup.rows, u)) > 1
       /\ Len(UrlRows(PreDedup.rows, v)) = 1

\* C9: all records with an empty/null url that are handed to the
\* deduplication stage survive it.
C9_NullUrlsSurvive ==
  DedupJustRan => NullUrlRows(combined_df.rows) = NullUrlRows(PreDedup.rows)

ContentFilterRan == \E i \in 1..Len(stages) : stages[i].stage = "content_filter"

\* C5: the content filter returns no more records than it was given, every
\* record it returns has token_count >= MIN_TOKENS, it returns every record
\* given to it that has token_count >= MIN_TOKENS, and a record whose
\* body_text is "ok" is not among them.
C5_ContentFilter ==
  ContentFilterRan =>
    /\ Len(filtered_df.rows) <= Len(combined_df.rows)
    /\ \A r \in Range(filtered_df.rows) : r.cells["token_count"] >= MIN_TOKENS
    /\ \A r \in Range(combined_df.rows) :
         r.cells["token_count"] >= MIN_TOKENS => r \in Range(filtered_df.rows)
    /\ \A r \in Range(combined_df.rows) :
         (~IsNa(r, "body_text") /\ r.cells["body_text"] = OkText)
           => r \notin Range(filtered_df.rows)

\* the filter was given an "ok" record and a record that it kept
C5_Witness ==
  /\ pc = "filtered"
  /\ \E r \in Range(combined_df.rows) :
       ~IsNa(r, "body_text") /\ r.cells["body_text"] = OkText
  /\ filtered_df.rows # <<>>

AllStages ==
  <<"load", "standardize", "extract_year", "year_range", "deduplicate",
    "preprocess", "content_filter", "balance", "persist">>

\* C6 as stated: a run that persisted its output ran each of the nine stages
\* exactly once, in the fixed order.
C6_AllStagesOnce == pc = "done" => StageNames = AllStages

\* C6 as amended: a run that persisted its output ran the stages in the fixed
\* order, each of them once, except that the deduplication is left out when
\* the corpus has no url column; and what it persisted is what the sampler
\* returned.
C6_StagesInOrder ==
  pc = "done" =>
    /\ StageNames = IF HasCol(combined_df, "url") THEN AllStages
                    ELSE SelectSeq(AllStages, LAMBDA n : n # "deduplicate")
    /\ pkl_file = <<balanced_df>>
    /\ Len(csv_file[1].rows) = Len(balanced_df.rows)

\* a run with a url column persisted a non-empty corpus
C6_Witness ==
  /\ pc = "done"
  /\ HasCol(combined_df, "url")
  /\ balanced_df.rows # <<>>

\* nothing that follows the loaders has happened
NothingAfterLoad ==
  /\ StageNames = <<"load">>
  /\ combined_df = EmptyDf /\ filtered_df = EmptyDf /\ balanced_df = EmptyDf
  /\ csv_file = <<>> /\ pkl_file = <<>>

\* C7: when a loader has yielded zero records the run does nothing but
\* abort: no later stage runs and no artifact is written.
C7_AbortOnMissingInput ==
  (pc # "start" /\ (chinese_df.rows = <<>> \/ western_df.rows = <<>>)) =>
    /\ pc \in {"loaded", "aborted"}
    /\ NothingAfterLoad

\* the run aborted although one of the categories had records
C7_Witness ==
  /\ pc = "aborted"
  /\ chinese_df.rows = <<>>
  /\ western_df.rows # <<>>

\* C8: a run ends with both artifacts persisted or on the MissingInput
\* condition, never otherwise.
C8_TwoOutcomes ==
  pc \in {"done", "aborted", "crashed"} =>
    \/ pc = "done" /\ csv_file # <<>> /\ pkl_file # <<>>
    \/ pc = "aborted" /\ MissingInput(chinese_df, western_df)

ContainsUrl(s) == \E p \in 1..Len(s) : UrlStart(s, p)

ContainsTag(s) == \E p \in 1..Len(s) : TagStart(s, p)

\* C12: the result of clean_text on a text that contains an HTML tag or a
\* bare URL contains neither an HTML tag nor a URL-like substring
\* (http..., www...).
C12_Sanitized ==
  \A k \in 1..Len(calls) :
    (/\ calls[k].arg.type = "str"
     /\ ContainsUrl(calls[k].arg.text) \/ ContainsTag(calls[k].arg.text))
      => ~ContainsUrl(calls[k].result) /\ ~ContainsTag(calls[k].result)

\* C13: clean_text returns the empty string for a null or non-string input.
C13_EmptyForNonString ==
  \A k \in 1..Len(calls) :
    calls[k].arg.type # "str" => calls[k].result = <<>>

\* clean_text was called with NaN
C13_Witness ==
  \E k \in 1..Len(calls) : calls[k].arg.type = "float('nan')"

\* ------------------------------------------------------- standardize_columns
StandardizeRan == pc = "standardized"

PreStandardize == stages[Len(stages)].replaced

\* column c of frame a holds, row by row, what column d of frame b holds
SameColumn(a, c, b, d) ==
  /\ Len(a.rows) = Len(b.rows)
  /\ \A i \in 1..Len(a.rows) :
       IF IsNa(a.rows[i], c) THEN IsNa(b.rows[i], d)
       ELSE ~IsNa(b.rows[i], d) /\ b.rows[i].cells[d] = a.rows[i].cells[c]

\* the aliases of each canonical field, in priority order
AliasPriority ==
  [headline |-> <<"title", "Title", "Headline">>,
   body_text |-> <<"body", "Body", "text", "content", "article_text">>,
   publication_date |-> <<"date", "Date", "pub_date", "seendate">>]

PresentAliases(df, new) == SelectSeq(AliasPriority[new], LAMBDA c : HasCol(df, c))

\* C18: for each canonical field absent from the frame given to
\* standardize_columns, the output holds under the canonical name the values
\* of the first alias column present in priority order; the later aliases
\* present are not used: they keep their names and values.
C18_FirstAliasWins ==
  StandardizeRan =>
    \A new \in DOMAIN AliasPriority :
      LET present == PresentAliases(PreStandardize, new)
      IN  (~HasCol(PreStandardize, new) /\ present # <<>>) =>
            /\ HasCol(combined_df, new)
            /\ SameColumn(PreStandardize, Head(present), combined_df, new)
            /\ \A j \in 2..Len(present) :
                 /\ HasCol(combined_df, present[j])
                 /\ SameColumn(PreStandardize, present[j], combined_df, present[j])

\* the files held both 'text' and 'content', with different values, and no
\* 'body_text'
C18_Witness ==
  /\ StandardizeRan
  /\ HasCol(PreStandardize, "text") /\ HasCol(PreStandardize, "content")
  /\ ~HasCol(PreStandardize, "body_text")
  /\ \E r \in Range(PreStandardize.rows) :
       ~IsNa(r, "text") /\ ~IsNa(r, "content") /\ r.cells["text"] # r.cells["content"]

IsAlias(c) == \E new \in DOMAIN AliasPriority : c \in Range(AliasPriority[new])

\* C19 (as stated): standardize_columns never overwrites a canonical field
\* that is present, leaves non-alias fields unchanged and never deletes a
\* field: every input field name is still present in the output with the same
\* value.
C19_EveryFieldKept ==
  StandardizeRan =>
    \A c \in Range(PreStandardize.columns) :
      HasCol(combined_df, c) /\ SameColumn(PreStandardize, c, combined_df, c)

\* C19 (amended): canonical fields that are present and non-alias fields keep
\* their names and values; an alias either keeps its name and values or is the
\* first alias present of an absent canonical field, and then its values are
\* found under the canonical name.
C19_NoValueLost ==
  StandardizeRan =>
    /\ \A c \in Range(PreStandardize.columns) :
         (c \in DOMAIN AliasPriority \/ ~IsAlias(c)) =>
           HasCol(combined_df, c) /\ SameColumn(PreStandardize, c, combined_df, c)
    /\ \A new \in DOMAIN AliasPriority :
         \A j \in 1..Len(PresentAliases(PreStandardize, new)) :
           LET c == PresentAliases(PreStandardize, new)[j]
           IN  IF j = 1 /\ ~HasCol(PreStandardize, new)
               THEN /\ ~HasCol(combined_df, c)
                    /\ SameColumn(PreStandardize, c, combined_df, new)
               ELSE /\ HasCol(combined_df, c)
                    /\ SameColumn(PreStandardize, c, combined_df, c)

\* 'title' was moved to 'headline'
C19_Witness ==
  /\ StandardizeRan
  /\ PreStandardize.rows # <<>>
  /\ HasCol(PreStandardize, "title") /\ ~HasCol(PreStandardize, "headline")
  /\ ~HasCol(combined_df, "title") /\ HasCol(combined_df, "headline")

\* each category's files standardized on their own, then combined
StandardizedAlone ==
  Concat2(standardize_columns(chinese_df), standardize_columns(western_df))

\* C20: a record gets the same canonical values whether its files are
\* standardized alone or inside the combined corpus, whatever aliases the
\* other files use.
C20_StatelessPerRecord ==
  StandardizeRan =>
    \A new \in DOMAIN AliasPriority :
      /\ HasCol(StandardizedAlone, new) => HasCol(combined_df, new)
      /\ SameColumn(StandardizedAlone, new, combined_df, new)

\* -------------------------------------------------------------- extract_year
ExtractYearRan == pc = "year_extracted"

PreExtractYear == stages[Len(stages)].replaced

\* C15: extract_year applied to its own result changes nothing, and a frame
\* that already has a 'year' column is returned unchanged.
C15_Idempotent ==
  ExtractYearRan =>
    /\ extract_year(combined_df) = combined_df
    /\ HasCol(PreExtractYear, "year") => combined_df = PreExtractYear

\* the files came with a 'year' column that differs from the year of the date
C15_Witness ==
  /\ ExtractYearRan
  /\ HasCol(PreExtractYear, "year")
  /\ \E r \in Range(combined_df.rows) :
       /\ ~IsNa(r, "year") /\ ~IsNa(r, "publication_date")
       /\ ParseYear(r.cells["publication_date"]) \notin {0, r.cells["year"]}

\* the first of publication_date, seendate, date that the record has
DateFields(r) == SelectSeq(<<"publication_date", "seendate", "date">>,
                           LAMBDA c : ~IsNa(r, c))

\* C16: every record without a year whose first field present among
\* publication_date, seendate, date holds a parseable date leaves
\* extract_year with that date's year, whatever the other records contain.
C16_YearFromFirstDateField ==
  ExtractYearRan =>
    /\ Len(combined_df.rows) = Len(PreExtractYear.rows)
    /\ \A i \in 1..Len(PreExtractYear.rows) :
         LET r == PreExtractYear.rows[i]
         IN  (/\ IsNa(r, "year")
              /\ DateFields(r) # <<>>
              /\ ParseYear(r.cells[Head(DateFields(r))]) # 0)
               => /\ ~IsNa(combined_df.rows[i], "year")
                  /\ combined_df.rows[i].cells["year"]
                       = ParseYear(r.cells[Head(DateFields(r))])

\* the frame handed to extract_year has no 'year' column and a
\* 'publication_date' column: the year is computed from publication_date
YearComputed(df) == ~HasCol(df, "year") /\ HasCol(df, "publication_date")

FailsToParse(r) ==
  ~IsNa(r, "publication_date") /\ ParseYear(r.cells["publication_date"]) = 0

PreYearRange == stages[Len(stages)].replaced

PreExtractYearOfRange == stages[Len(stages) - 1].replaced

\* C17: a record whose publication_date does not parse leaves extract_year
\* with a null year, also when its seendate would parse; the years of the
\* other records are extracted and the 'year' column exists, so the year-range
\* filter runs; and the year-range filter removes the record.
C17_UnparseableDate ==
  /\ (ExtractYearRan /\ YearComputed(PreExtractYear)) =>
       /\ HasCol(combined_df, "year")
       /\ \A i \in 1..Len(PreExtractYear.rows) :
            LET r == PreExtractYear.rows[i]
            IN  IF FailsToParse(r) THEN IsNa(combined_df.rows[i], "year")
                ELSE IsNa(r, "publication_date")
                       \/ (/\ ~IsNa(combined_df.rows[i], "year")
                           /\ combined_df.rows[i].cells["year"]
                                = ParseYear(r.cells["publication_date"]))
  /\ (pc = "year_filtered" /\ YearComputed(PreExtractYearOfRange)) =>
       \A i \in 1..Len(PreExtractYearOfRange.rows) :
         FailsToParse(PreExtractYearOfRange.rows[i]) =>
           \A r \in Range(combined_df.rows) : r.idx # PreYearRange.rows[i].idx

\* a record with an unparseable publication_date and a parseable seendate was
\* removed by the year-range filter while another record passed it
C17_Witness ==
  /\ pc = "year_filtered"
  /\ YearComputed(PreExtractYearOfRange)
  /\ \E r \in Range(PreExtractYearOfRange.rows) :
       FailsToParse(r) /\ ~IsNa(r, "seendate") /\ ParseYear(r.cells["seendate"]) # 0
  /\ combined_df.rows # <<>>

\* -------------------------------------------------------- preprocess_articles
PreprocessRan == pc = "preprocessed"

PrePreprocess == stages[Len(stages)].replaced

\* C11: every record leaving preprocess_articles has tokens computed in this
\* run from its cleaned body, and its token_count is their number, also when
\* the files came with a token_count column.
C11_TokenCountIsLenTokens ==
  PreprocessRan =>
    \A r \in Range(combined_df.rows) :
      /\ ~IsNa(r, "clean_text") /\ ~IsNa(r, "tokens") /\ ~IsNa(r, "token_count")
      /\ r.cells["tokens"] = tokenize_text(r.cells["clean_text"])
      /\ r.cells["token_count"] = Len(r.cells["tokens"])

\* the column preprocess_articles reads the body from
TextCols(df) == SelectSeq(<<"body_text", "text", "content", "body">>,
                          LAMBDA c : HasCol(df, c))

NullBody(df, r) == TextCols(df) # <<>> /\ IsNa(r, Head(TextCols(df)))

\* C14: a record whose body is null leaves preprocess_articles with clean_text
\* "" and token_count 0; the token_count column exists, so the content filter
\* runs; and the content filter removes the record.
C14_NullBody ==
  /\ PreprocessRan =>
       \A i \in 1..Len(PrePreprocess.rows) :
         NullBody(PrePreprocess, PrePreprocess.rows[i]) =>
           /\ HasCol(combined_df, "token_count")
           /\ combined_df.rows[i].cells["clean_text"] = <<>>
           /\ combined_df.rows[i].cells["token_count"] = 0
  /\ ContentFilterRan =>
       \A r \in Range(combined_df.rows) :
         NullBody(combined_df, r) =>
           \A kept \in Range(filtered_df.rows) : kept.idx # r.idx

\* the content filter removed a record with a null body and kept another
C14_Witness ==
  /\ ContentFilterRan
  /\ MIN_TOKENS > 0
  /\ \E r \in Range(combined_df.rows) : NullBody(combined_df, r)
  /\ filtered_df.rows # <<>>

\* ------------------------------------------------------------- tokenize_text
\* the tokens occur in s, one after the other, from position p on
RECURSIVE OccurInOrder(_, _, _)
OccurInOrder(toks, s, p) ==
  IF toks = <<>> THEN TRUE
  ELSE LET at == {q \in p..(Len(s) - Len(Head(toks)) + 1) :
                    SubSeq(s, q, q + Len(Head(toks)) - 1) = Head(toks)}
       IN  at # {} /\ OccurInOrder(Tail(toks), s,
                                   (CHOOSE q \in at : \A r \in at : q <= r)
                                     + Len(Head(toks)))

EnglishStopWords ==
  { <<"t","h","e">>, <<"a","n","d">>, <<"i","s">>, <<"o","f">>,
    <<"n","o","w">>, <<"a">>, <<"i","n">>, <<"t","o">> }

\* C21: every token returned by tokenize_text is lowercase, fully alphabetic,
\* longer than 2 characters and not an English stopword; the tokens occur in
\* the lowercased text in the order returned; the empty text gives no token.
C21_Tokens ==
  \A k \in 1..Len(calls) :
    LET toks == calls[k].result
    IN  /\ \A j \in 1..Len(toks) :
             /\ toks[j] # <<>>
             /\ \A i \in 1..Len(toks[j]) : toks[j][i] \in Range(LowerSeq)
             /\ Len(toks[j]) > 2
             /\ toks[j] \notin EnglishStopWords
        /\ OccurInOrder(toks, LowerText(calls[k].arg.text), 1)
        /\ calls[k].arg.text = <<>> => toks = <<>>

\* tokenize_text returned two tokens in order and dropped a stopword, a short
\* word or a word with a digit
C21_Witness ==
  \E k \in 1..Len(calls) :
    /\ Len(calls[k].result) = 2
    /\ calls[k].result[1] # calls[k].result[2]
    /\ Len(WordTokenize(calls[k].arg.text)) = 3

\* ------------------------------------------------------ clean_text whitelist
\* C27: for every string input the result of clean_text holds only word
\* characters, spaces and the punctuation . , ! ? ' " -, does not start or end
\* with whitespace and has no two whitespace characters in a row.
C27_Whitelist ==
  \A k \in 1..Len(calls) :
    calls[k].arg.type = "str" =>
      LET out == calls[k].result
      IN  /\ \A i \in 1..Len(out) :
               \/ out[i] \in Range(LowerSeq) \cup Range(UpperSeq) \cup Range(DigitSeq)
               \/ out[i] \in {"_", " ", ".", ",", "!", "?", "'", "\"", "-"}
          /\ out # <<>> => out[1] # " " /\ out[Len(out)] # " "
          /\ \A i \in 1..(Len(out) - 1) : ~(out[i] = " " /\ out[i + 1] = " ")

\* clean_text was given a text with a special character, a newline and outer
\* whitespace and returned a non-empty text
C27_Witness ==
  \E k \in 1..Len(calls) :
    /\ calls[k].arg.type = "str"
    /\ calls[k].result # <<>>
    /\ \E i \in 1..Len(calls[k].arg.text) : calls[k].arg.text[i] = "$"
    /\ \E i \in 1..Len(calls[k].arg.text) : calls[k].arg.text[i] = "\n"

\* ----------------------------------------------------------------- artifacts
FlatColumns ==
  {"headline", "body_text", "clean_text", "source", "source_category",
   "publication_date", "year", "url", "token_count"}

\* C22: both artifacts hold the records the balanced sampler returned, in its
\* order; the flat artifact has only columns of FlatColumns and never
\* 'tokens'; the full artifact has the fields of the flat one plus the tokens
\* of every record.
C22_Artifacts ==
  pc = "done" =>
    LET csv == csv_file[1]
        pkl == pkl_file[1]
    IN  /\ Len(csv.rows) = Len(balanced_df.rows)
        /\ Len(pkl.rows) = Len(balanced_df.rows)
        /\ \A i \in 1..Len(balanced_df.rows) :
             /\ pkl.rows[i].cells = balanced_df.rows[i].cells
             /\ \A c \in DOMAIN csv.rows[i] :
                  csv.rows[i][c] = balanced_df.rows[i].cells[c]
             /\ \A c \in DOMAIN balanced_df.rows[i].cells \cap FlatColumns :
                  c \in DOMAIN csv.rows[i]
        /\ Range(csv.columns) \subseteq FlatColumns
        /\ \A c \in Range(csv.columns) : HasCol(pkl, c)
        /\ HasCol(pkl, "tokens")
        /\ \A i \in 1..Len(pkl.rows) : ~IsNa(pkl.rows[i], "tokens")

\* ------------------------------------------- deduplication across categories
CategoryOf(r) == r.cells["source_category"]

\* C25: when a url reaches the deduplication stage under both categories, the
\* one record that survives for it is a Chinese State Media record, the
\* category that is loaded and concatenated first.
C25_FirstLoadedCategoryWins ==
  DedupJustRan =>
    \A u \in UrlsIn(PreDedup.rows) :
      ({Chinese, Western} \subseteq
         {CategoryOf(r) : r \in Range(UrlRows(PreDedup.rows, u))})
        => /\ Len(UrlRows(combined_df.rows, u)) = 1
           /\ CategoryOf(UrlRows(combined_df.rows, u)[1]) = Chinese

\* a url reached the deduplication stage under both categories
C25_Witness ==
  /\ DedupJustRan
  /\ \E u \in UrlsIn(PreDedup.rows) :
       {Chinese, Western} \subseteq
         {CategoryOf(r) : r \in Range(UrlRows(PreDedup.rows, u))}

\* the frame the year-range filter was given, seen after deduplication
PreYearRangeOfDedup == stages[Len(stages) - 1].replaced

YearIn2017To2024(r) ==
  ~IsNa(r, "year") /\ 2017 <= r.cells["year"] /\ r.cells["year"] <= 2024

\* C30: for every url, the record that survives deduplication is the first
\* of the records handed to the year-range filter that has the url and a year
\* in [2017, 2024]; earlier records with the url and another year or no year
\* do not suppress it.
C30_FirstInRangeWins ==
  DedupJustRan =>
    \A u \in UrlsIn(PreYearRangeOfDedup.rows) :
      LET in_range == SelectSeq(UrlRows(PreYearRangeOfDedup.rows, u), YearIn2017To2024)
      IN  IF in_range = <<>> THEN UrlRows(combined_df.rows, u) = <<>>
          ELSE UrlRows(combined_df.rows, u) = <<in_range[1]>>

\* a url was first carried by a record of 2016 and later by a record of 2020
C30_Witness ==
  /\ DedupJustRan
  /\ \E u \in UrlsIn(PreYearRangeOfDedup.rows) :
       LET rows == UrlRows(PreYearRangeOfDedup.rows, u)
       IN  /\ Len(rows) > 1
           /\ ~YearIn2017To2024(rows[1])
           /\ \E i \in 2..Len(rows) : YearIn2017To2024(rows[i])

\* ------------------------------------------------- order, range and subset
YearOf(r) == r.cells["year"]

\* C23: the output of create_balanced_dataset is ordered by year ascending,
\* and within a year every Chinese State Media record comes before every
\* Western Media record.
C23_OutputOrder ==
  \A k \in 1..Len(calls) :
    Returned(calls[k]) =>
      \A i, j \in 1..Len(calls[k].df.rows) :
        i < j =>
          LET a == calls[k].df.rows[i]
              b == calls[k].df.rows[j]
          IN  /\ YearOf(a) <= YearOf(b)
              /\ (YearOf(a) = YearOf(b) /\ CategoryOf(a) = Western)
                   => CategoryOf(b) = Western

\* a call returned records of two years although the input listed the later
\* year first
C23_Witness ==
  \E k \in 1..Len(calls) :
    /\ Returned(calls[k])
    /\ Cardinality(YearsIn(calls[k].df.rows)) = 2
    /\ \E i, j \in 1..Len(filtered_df.rows) :
         /\ i < j
         /\ InYearRange(filtered_df.rows[i]) /\ InYearRange(filtered_df.rows[j])
         /\ YearOf(filtered_df.rows[i]) > YearOf(filtered_df.rows[j])

\* C24: every record create_balanced_dataset returns has a year in
\* [2017, 2024] and the category Chinese State Media or Western Media,
\* whatever other categories, other years and null years the input holds.
C24_YearAndCategory ==
  \A k \in 1..Len(calls) :
    Returned(calls[k]) =>
      \A r \in Range(calls[k].df.rows) :
        /\ ~IsNa(r, "year") /\ 2017 <= YearOf(r) /\ YearOf(r) <= 2024
        /\ CategoryOf(r) \in {"Chinese State Media", "Western Media"}

\* a call returned for an input with a record of another category and a
\* record of another year or without a year
C24_Witness ==
  \E k \in 1..Len(calls) :
    /\ Returned(calls[k])
    /\ \E r \in Range(filtered_df.rows) : CategoryOf(r) = International
    /\ \E r \in Range(filtered_df.rows) : ~InYearRange(r)

\* C26: every record create_balanced_dataset returns is a record of its
\* input, and no input record is returned more than once.
C26_SubsetWithoutRepetition ==
  \A k \in 1..Len(calls) :
    Returned(calls[k]) =>
      /\ CellsOf(calls[k].df.rows) \subseteq CellsOf(filtered_df.rows)
      /\ \A i, j \in 1..Len(calls[k].df.rows) :
           i # j => calls[k].df.rows[i].cells # calls[k].df.rows[j].cells

\* a call returned two records of each category for one year
C26_Witness ==
  \E k \in 1..Len(calls) :
    /\ Returned(calls[k])
    /\ \E y \in YearLo..YearHi : Count(calls[k].df.rows, Chinese, y) = 2

\* ------------------------------------------------------ the random stream
\* the state of a generator after RandomState.shuffle of n elements, which
\* draws n - 1 times
RECURSIVE StateAfterShuffle(_, _)
StateAfterShuffle(n, s) ==
  IF n < 2 THEN s ELSE StateAfterShuffle(n - 1, NextState(s))

\* the sizes of the frames .sample() is called on, in the order of the calls
RECURSIVE DrawSizes(_, _)
DrawSizes(df, years) ==
  IF years = <<>> THEN <<>>
  ELSE LET chinese_year == YearRows(CategoryRows(df.rows, Chinese), Head(years))
           western_year == YearRows(CategoryRows(df.rows, Western), Head(years))
       IN  (IF NSample(Len(chinese_year), Len(western_year)) > 0
            THEN <<Len(chinese_year), Len(western_year)>> ELSE <<>>)
             \o DrawSizes(df, Tail(years))

\* C28: the draws of one call use one stream: the first draw starts from the
\* seeded state, and every later draw starts from the state the draw before
\* it left the generator in; no draw starts again from the seed.
C28_SingleStream ==
  \A k \in 1..Len(calls) :
    LET sizes == DrawSizes(filtered_df, SamplerYears(filtered_df))
        env == [np_random |-> np_random, now |-> 1000]
        start == SampleGenerator(calls[k].random_state, env)
    IN  \A d \in 2..Len(sizes) : start = StateAfterShuffle(sizes[d - 1], start)

\* the records of df that the sampling of year y reads
YearSlice(df, y) ==
  FilterRows(df, LAMBDA r : /\ ~IsNa(r, "year") /\ r.cells["year"] = y
                            /\ r.cells["source_category"] \in {Chinese, Western})

\* the records of a frame in order, without their index labels
RecordsOf(rows) == [i \in 1..Len(rows) |-> rows[i].cells]

\* C29: for a fixed seed, what create_balanced_dataset selects for a year is
\* what it selects when given only the Chinese and Western records of that
\* year, in their order: records of other years and categories do not
\* matter.
C29_PerYearIndependence ==
  \A k \in 1..Len(calls) :
    \A y \in YearLo..YearHi :
      LET env == [np_random |-> np_random, now |-> 1000]
      IN  RecordsOf(YearRows(calls[k].df.rows, y))
            = RecordsOf(create_balanced_dataset(YearSlice(filtered_df, y),
                                                calls[k].random_state, env).df.rows)

\* a call sampled one of two records of a year while the input also held a
\* record of an earlier year
C29_Witness ==
  \E k \in 1..Len(calls) :
    /\ Returned(calls[k])
    /\ \E y \in YearLo..YearHi :
         /\ Count(calls[k].df.rows, Chinese, y) = 1
         /\ Count(filtered_df.rows, Chinese, y) = 2
         /\ \E r \in Range(filtered_df.rows) : ~IsNa(r, "year") /\ YearOf(r) < y
====
